---- MODULE Spec2Model ----
(***************************************************************************)
(* The request workflow of the portal backend: create_request              *)
(* (app/routers/requests.py) and the admin operations assign_request,      *)
(* get_request_details and admin_reply (app/routers/admin.py), over the    *)
(* tables Request, RequestData, Request_RequestInformation,                *)
(* Request_Format and Reply, the attachment directory and the per-call     *)
(* BackgroundTasks list.  Every handler runs in a worker (Procs); a        *)
(* handler that commits more than once is one action per commit, so that   *)
(* the states other calls can observe between its commits are states of    *)
(* the model.                                                              *)
(***************************************************************************)
EXTENDS Integers, Sequences, FiniteSets, TLC

VARIABLES
    overlap,       \* whether clients send a call while another is being handled
    form,          \* the multipart form values the clients of this run submit
    requests,      \* table Request: row i has Id = i (identity column); call and
                   \* assigned record the call that made the row and the role
                   \* of the latest successful assign_request
    requestData,   \* table RequestData, in insertion order
    reqInfo,       \* table Request_RequestInformation, in insertion order
    reqFormat,     \* table Request_Format, in insertion order
    replies,       \* table Reply: row i has Id = i; call and status record the
                   \* call that made the row and the status_id it was given
    files,         \* the attachment directories: stored path -> content
    now,           \* the server clock (UTC), in ticks
    ncalls,        \* handler calls started so far
    proc,          \* per worker: the running call's parameters and locals
    last,          \* the call answered last: its parameters, locals and response
    votes,         \* table Vote: row i has Id = i
    users,         \* table User of the accounts: row i has UserID = i
    domains,       \* table Domain, in insertion order
    roleApps,      \* table RoleApp: the links of roles to application features
    answers        \* table UsersFeedbackAnswer, in insertion order

vars == <<overlap, form, requests, requestData, reqInfo, reqFormat, replies, files, now, ncalls, proc, last, votes, users, domains, roleApps, answers>>

(* ------------------------------ bounds --------------------------------- *)
MaxCalls == 3
MaxAccountCalls == 2
MaxBulkCalls == 1
MaxItems == 2
MaxTime == 1

Procs == {1, 2}

(* --------------------------- program constants -------------------------- *)
None == -1
DataCategory == 8
InitialStatus == 7
AdminRole == 1
PadWidth == 4

SYSTEM_EMAIL == "system@ngd"
NoEmail == "None"

(* --------------------------- reference data ----------------------------- *)
\* Rows of the User table: UserID -> role and e-mail.  User 2 has no e-mail.
UserIds == {1, 2}
RoleID(u) == IF u = 1 THEN AdminRole ELSE 2
Email(u) == IF u = 1 THEN "admin@ngd" ELSE NoEmail

CategoryIds == {DataCategory, 3}
ProjectionLookup == {1}
StatusLookup == {InitialStatus, 2}
RequestInformationLookup == {1, 2}
FormatLookup == {1, 2}
RoleIds == {AdminRole, 2}

(* ------------------------- strings and parsing -------------------------- *)
\* A string is a sequence of one-character strings.
Digits == <<"0", "1", "2", "3", "4", "5", "6", "7", "8", "9">>

IsDigitChar(c) == \E i \in 1..Len(Digits) : Digits[i] = c

DigitValue(c) == (CHOOSE i \in 1..Len(Digits) : Digits[i] = c) - 1

\* str.split(sep): the pieces between the separators, empty pieces included.
RECURSIVE split(_, _)
split(s, sep) ==
    IF \A i \in 1..Len(s) : s[i] # sep
    THEN <<s>>
    ELSE LET k == CHOOSE i \in 1..Len(s) :
                      s[i] = sep /\ \A j \in 1..(i - 1) : s[j] # sep
         IN <<SubSeq(s, 1, k - 1)>> \o split(SubSeq(s, k + 1, Len(s)), sep)

\* str.strip(): leading and trailing blanks removed.
RECURSIVE strip(_)
strip(s) ==
    IF s = <<>> THEN s
    ELSE IF Head(s) = " " THEN strip(Tail(s))
    ELSE IF s[Len(s)] = " " THEN strip(SubSeq(s, 1, Len(s) - 1))
    ELSE s

\* str.isdigit(): non-empty and every character a digit.
isdigit(s) == s # <<>> /\ \A i \in 1..Len(s) : IsDigitChar(s[i])

\* int(s) of a digit string.
RECURSIVE int(_)
int(s) ==
    IF s = <<>> THEN 0
    ELSE 10 * int(SubSeq(s, 1, Len(s) - 1)) + DigitValue(s[Len(s)])

\* str.replace(' ', '_')
replace_blank(s) == [i \in 1..Len(s) |-> IF s[i] = " " THEN "_" ELSE s[i]]

\* The tokens of v that are all digits after trimming; v is "" when the form
\* field is absent or blank.
DigitTokens(v) ==
    IF v = <<>> THEN <<>>
    ELSE SelectSeq([i \in 1..Len(split(v, ",")) |-> strip(split(v, ",")[i])], isdigit)

parse_list(v) == [i \in 1..Len(DigitTokens(v)) |-> int(DigitTokens(v)[i])]

\* str(n).zfill(PadWidth): the decimal digits of n, left-padded with zeros.
RECURSIVE str(_)
str(n) == IF n < 10 THEN <<Digits[n + 1]>> ELSE str(n \div 10) \o <<Digits[(n % 10) + 1]>>

zfill_unpadded(s, w) == s

RECURSIVE zfill(_, _)
zfill(s, w) == IF Len(s) >= w THEN s ELSE zfill(<<"0">> \o s, w)

(* ------------------------------- clock ---------------------------------- *)
\* One day is DayLen ticks; the server's local time runs TzOffset ticks ahead
\* of UTC.  strftime('%Y%m%d') of a time is its day number, and
\* strftime('%Y%m%d%H%M%S') is the tick itself.
DayLen == 2
TzOffset == 1
utcnow == now
localnow == now + TzOffset
Date(t) == t \div DayLen

(* ------------------------------- inputs --------------------------------- *)
NoFile == <<>>
NoPath == <<>>

\* The values of create_request's form fields and of the uploaded file that
\* the clients of one run submit.  An absent or blank text field is "".
UploadedFile == <<"a", " ", "b">>

Forms ==
    { \* a data request with nothing optional
      [CategoryId |-> DataCategory, ProjectionId |-> None, attach |-> NoFile,
       RequestInformationIds |-> <<>>, FormatIds |-> <<>>],
      \* a data request with a projection, a file and tags, one id twice
      [CategoryId |-> DataCategory, ProjectionId |-> 1, attach |-> UploadedFile,
       RequestInformationIds |-> <<"1", ",", "2">>,
       FormatIds |-> <<"1", ",", "0", "1">>],
      \* a data request whose projection does not resolve, with a file
      [CategoryId |-> DataCategory, ProjectionId |-> 9, attach |-> UploadedFile,
       RequestInformationIds |-> <<"1", ",", "2">>, FormatIds |-> <<>>],
      \* projection zero; blanks, a non-numeric token and an unknown id
      [CategoryId |-> DataCategory, ProjectionId |-> 0, attach |-> NoFile,
       RequestInformationIds |-> <<" ", "2", " ", ",", "x", ",", "9">>,
       FormatIds |-> <<"1", ",", "2">>],
      \* another category, with a file and tags
      [CategoryId |-> 3, ProjectionId |-> None, attach |-> UploadedFile,
       RequestInformationIds |-> <<"1", ",", "0", "1">>,
       FormatIds |-> <<" ", "2", " ", ",", "x", ",", "9">>],
      \* another category with a projection that does not resolve
      [CategoryId |-> 3, ProjectionId |-> 9, attach |-> NoFile,
       RequestInformationIds |-> <<"1", ",", "2">>,
       FormatIds |-> <<"1", ",", "2">>],
      \* another category with a projection that resolves
      [CategoryId |-> 3, ProjectionId |-> 1, attach |-> NoFile,
       RequestInformationIds |-> <<>>, FormatIds |-> <<"1", ",", "2">>] }

(* ------------------------------ responses ------------------------------- *)
NoResponse == [http |-> 0, success |-> FALSE, message |-> "", error_code |-> "None"]

\* utils/response.py: the envelope, delivered with HTTP status 200.
success_response(message_en) ==
    [http |-> 200, success |-> TRUE, message |-> message_en, error_code |-> "None"]

error_response(message_en, error_code) ==
    [http |-> 200, success |-> FALSE, message |-> message_en, error_code |-> error_code]

\* An exception that leaves the handler: the framework answers with an HTTP
\* error status and no envelope, and runs none of the call's background tasks.
http_error(code, detail) ==
    [http |-> code, success |-> FALSE, message |-> detail, error_code |-> "None"]

(* ------------------------------ workers --------------------------------- *)
\* The local req of a handler that has not loaded a Request row.
NoRow == << >>

IdleProc ==
    [pc |-> "idle", op |-> "none", call |-> 0, user |-> None,
     ProjectionId |-> None, attach_rel |-> NoPath, next_number |-> None,
     request_number |-> <<>>, new_request |-> None, request_id |-> None,
     status_id |-> None, role_id |-> None, req_StatusId |-> None, req |-> NoRow,
     new_reply |-> None,
     args |-> << >>, new_user |-> None, access_token |-> << >>,
     details |-> << >>, background_tasks |-> <<>>, ran |-> 0,
     response |-> NoResponse]

\* The pool hands a new call to the first idle worker.
Free(p) ==
    /\ proc[p].pc = "idle"
    /\ \A q \in Procs : q < p => proc[q].pc # "idle"
    /\ overlap \/ \A q \in Procs : proc[q].pc = "idle"
    /\ ncalls < MaxCalls

Updated(p, fields) ==
    [k \in DOMAIN proc[p] |-> IF k \in DOMAIN fields THEN fields[k] ELSE proc[p][k]]

\* The handler goes on at the step named label, with the locals in fields set.
Goto(p, fields, label) ==
    /\ proc' = [proc EXCEPT ![p] = [Updated(p, fields) EXCEPT !.pc = label]]
    /\ UNCHANGED last

\* The handler returns or raises: the call is answered with resp.  Its locals
\* are dropped; only its background tasks stay with the worker, which runs
\* them after a response that is not an HTTP error.
Respond(p, fields, resp) ==
    LET done == [Updated(p, fields) EXCEPT !.pc = "responded", !.response = resp]
        tasks == IF resp.http = 200 THEN done.background_tasks ELSE <<>>
    IN /\ last' = done
       /\ proc' = [proc EXCEPT ![p] =
                     IF tasks = <<>> THEN IdleProc
                     ELSE [IdleProc EXCEPT !.pc = "background",
                                           !.background_tasks = tasks]]

(* ------------------------------ the tables ------------------------------ *)
\* db.query(Request).order_by(Request.Id.desc()).first(): the highest Id, or
\* None when the table is empty.
LastRequestId == IF requests = <<>> THEN None ELSE Len(requests)

ExistingRequest(id) == id \in 1..Len(requests)

\* open(save_path, "wb") and copyfileobj: the file at the path is created or
\* replaced by the uploaded content, which is named by the call that uploads
\* it.  When the copy raises, what was written so far stays (Truncated).
Truncated == 0

WriteFile(path, content) ==
    {f \in files : f.path # path} \cup {[path |-> path, content |-> content]}

Empty ==
    /\ requests = <<>>
    /\ requestData = <<>>
    /\ reqInfo = <<>>
    /\ reqFormat = <<>>
    /\ replies = <<>>
    /\ votes = <<>>
    /\ users = <<>>
    /\ domains = <<>>
    /\ roleApps = <<>>
    /\ answers = <<>>
    /\ form \in Forms
    /\ files = {}
    /\ now = 0
    /\ ncalls = 0
    /\ proc = [p \in Procs |-> IdleProc]
    /\ last = IdleProc

(* ---------------------------- create_request ---------------------------- *)
\* open() or the copy raises: the exception leaves the handler before
\* anything else is done; what the copy had written stays in the file.
create_request_attachment_raises_after_insert(p, start, path) ==
    /\ Respond(p, start, http_error(500, "Internal Server Error"))
    /\ UNCHANGED files
    /\ requests' = Append(requests,
          [Id |-> Len(requests) + 1, UserId |-> start.user,
           CategoryId |-> form.CategoryId, AssignedRoleId |-> None,
           RequestNumber |-> <<"RQ", Date(localnow), zfill(str(Len(requests) + 1), PadWidth)>>,
           StatusId |-> InitialStatus, CreatedAt |-> utcnow, AttachPath |-> NoPath,
           UpdatedAt |-> None, UpdatedByUserID |-> None, call |-> start.call,
           assigned |-> None])

create_request_attachment_raises(p, start, path) ==
    /\ Respond(p, start, http_error(500, "Internal Server Error"))
    /\ \/ UNCHANGED files
       \/ files' = WriteFile(path, Truncated)
    /\ UNCHANGED requests

\* Step 1: a call arrives and the attachment, if any, is written first.
create_request_save_attachment(p) ==
    /\ Free(p)
    /\ ncalls' = ncalls + 1
    /\ \E user \in UserIds :
         LET attach == form.attach
             start == [IdleProc EXCEPT !.op = "create_request", !.call = ncalls + 1,
                           !.user = user]
             safe_name == <<utcnow, replace_blank(attach)>>
         IN \/ /\ attach = NoFile
               /\ Goto(p, start, "number")
               /\ UNCHANGED <<files, requests>>
            \/ /\ attach # NoFile
               /\ Goto(p, [start EXCEPT !.attach_rel = <<"requests">> \o safe_name], "number")
               /\ files' = WriteFile(<<"requests">> \o safe_name, ncalls + 1)
               /\ UNCHANGED requests
            \/ /\ attach # NoFile
               /\ create_request_attachment_raises(p, start, <<"requests">> \o safe_name)
    /\ UNCHANGED <<requestData, reqInfo, reqFormat, replies, now, form, votes, users, domains, roleApps, answers, overlap>>

\* Step 2: the request number, from the highest Id read now and today's date.
create_request_generate_number(p) ==
    /\ proc[p].pc = "number"
    /\ LET next_number == IF LastRequestId = None THEN 1 ELSE LastRequestId + 1
       IN Goto(p, [next_number |-> next_number,
                   request_number |-> <<"RQ", Date(localnow),
                                        zfill(str(next_number), PadWidth)>>],
               "projection")
    /\ UNCHANGED <<requests, requestData, reqInfo, reqFormat, replies, files, now, ncalls, form, votes, users, domains, roleApps, answers, overlap>>

\* Step 3: ProjectionId is normalised, or must resolve.
create_request_validate_projection(p) ==
    /\ proc[p].pc = "projection"
    /\ LET ProjectionId == form.ProjectionId
       IN
         IF ProjectionId \in {0, None}
         THEN Goto(p, [ProjectionId |-> None], "request")
         ELSE IF ProjectionId \notin ProjectionLookup
         THEN Respond(p, [ProjectionId |-> ProjectionId],
                      error_response("Invalid ProjectionId", "None"))
         ELSE Goto(p, [ProjectionId |-> ProjectionId], "request")
    /\ UNCHANGED <<requests, requestData, reqInfo, reqFormat, replies, files, now, ncalls, form, votes, users, domains, roleApps, answers, overlap>>

\* Step 4: the Request row is added and committed; refresh reads its Id.
create_request_insert_request(p) ==
    /\ proc[p].pc = "request"
    /\ requests' = Append(requests,
          [Id |-> Len(requests) + 1,
           UserId |-> proc[p].user,
           CategoryId |-> form.CategoryId,
           AssignedRoleId |-> None,
           RequestNumber |-> proc[p].request_number,
           StatusId |-> InitialStatus,
           CreatedAt |-> utcnow,
           AttachPath |-> proc[p].attach_rel,
           UpdatedAt |-> None,
           UpdatedByUserID |-> None,
           call |-> proc[p].call,
           assigned |-> None])
    /\ Goto(p, [new_request |-> Len(requests) + 1], "data")
    /\ UNCHANGED <<requestData, reqInfo, reqFormat, replies, files, now, ncalls, form, votes, users, domains, roleApps, answers, overlap>>

\* Step 5: for a data request the RequestData row is added and committed.
create_request_insert_request_data(p) ==
    /\ proc[p].pc = "data"
    /\ IF form.CategoryId = DataCategory
       THEN requestData' = Append(requestData,
                [RequestId |-> proc[p].new_request,
                 ProjectionId |-> proc[p].ProjectionId])
       ELSE UNCHANGED requestData
    /\ Goto(p, << >>, "tags")
    /\ UNCHANGED <<requests, reqInfo, reqFormat, replies, files, now, ncalls, form, votes, users, domains, roleApps, answers, overlap>>

\* Step 6: one association row per parsed id, then the commit.
create_request_insert_tags(p) ==
    /\ proc[p].pc = "tags"
    /\ LET RequestInformationIds == form.RequestInformationIds
           FormatIds == form.FormatIds
       IN
         /\ reqInfo' = reqInfo \o
               [i \in 1..Len(parse_list(RequestInformationIds)) |->
                   [RequestId |-> proc[p].new_request,
                    RequestInformationId |-> parse_list(RequestInformationIds)[i]]]
         /\ reqFormat' = reqFormat \o
               [i \in 1..Len(parse_list(FormatIds)) |->
                   [RequestId |-> proc[p].new_request,
                    FormatId |-> parse_list(FormatIds)[i]]]
         /\ Goto(p, << >>, "emails")
    /\ UNCHANGED <<requests, requestData, replies, files, now, ncalls, form, votes, users, domains, roleApps, answers, overlap>>

\* Step 7: the notification to the system address, with the attachment when
\* there is one, and the acknowledgement to the submitter.
create_request_tasks_system_only(p) ==
    << [fn |-> IF proc[p].attach_rel # NoPath
               THEN "send_email_with_attachment" ELSE "send_email",
        to |-> SYSTEM_EMAIL,
        request_number |-> proc[p].request_number,
        attachment |-> proc[p].attach_rel] >>

create_request_tasks(p) ==
    << [fn |-> IF proc[p].attach_rel # NoPath
               THEN "send_email_with_attachment" ELSE "send_email",
        to |-> SYSTEM_EMAIL,
        request_number |-> proc[p].request_number,
        attachment |-> proc[p].attach_rel],
       [fn |-> "send_email",
        to |-> Email(proc[p].user),
        request_number |-> proc[p].request_number,
        attachment |-> NoPath] >>

\* Steps 7 and 8: the two notifications are added to the call's background
\* tasks and the envelope is returned.
create_request_respond(p) ==
    /\ proc[p].pc = "emails"
    /\ Respond(p, [background_tasks |-> create_request_tasks(p)],
               success_response("Request created successfully"))
    /\ UNCHANGED <<requests, requestData, reqInfo, reqFormat, replies, files, now, ncalls, form, votes, users, domains, roleApps, answers, overlap>>

(* ------------------------ auth and role dependencies -------------------- *)
\* require_admin: any caller whose role is not the admin role gets HTTP 403.
require_admin(user) == RoleID(user) = AdminRole

RequestIdInputs == 1..(Len(requests) + 1)
RoleInputs == RoleIds
StatusInputs == StatusLookup

(* ---------------------------- assign_request ---------------------------- *)
\* What assign_request writes to the row it found.
assign_update_with_status(req, role_id) ==
    [req EXCEPT !.AssignedRoleId = role_id, !.StatusId = 2]

assign_update_toggling(req, role_id) ==
    [req EXCEPT !.AssignedRoleId = IF @ = role_id THEN None ELSE role_id]

assign_update(req, role_id) == [req EXCEPT !.AssignedRoleId = role_id]

assign_request(p) ==
    /\ Free(p)
    /\ ncalls' = ncalls + 1
    /\ \E user \in UserIds, request_id \in RequestIdInputs, role_id \in RoleInputs :
         LET start == [IdleProc EXCEPT !.op = "assign_request", !.call = ncalls + 1,
                           !.user = user, !.request_id = request_id,
                           !.role_id = role_id]
         IN IF ~require_admin(user)
            THEN /\ Respond(p, start, http_error(403, "Admins only"))
                 /\ UNCHANGED requests
            ELSE IF ~ExistingRequest(request_id)
            THEN /\ Respond(p, start,
                            error_response("Request not found", "REQUEST_NOT_FOUND"))
                 /\ UNCHANGED requests
            ELSE /\ requests' = [requests EXCEPT ![request_id] =
                                    [assign_update(@, role_id) EXCEPT !.assigned = role_id]]
                 /\ Respond(p, [start EXCEPT !.req = requests[request_id]],
                            success_response("Request assigned successfully"))
    /\ UNCHANGED <<requestData, reqInfo, reqFormat, replies, files, now, form, votes, users, domains, roleApps, answers, overlap>>

(* -------------------------- get_request_details ------------------------- *)
\* The rows of an association table that belong to request id and join a row
\* of the lookup table, as the ids of the joined lookup rows.
RECURSIVE JoinedIds(_, _, _, _)
JoinedIds(rows, key, lookup, id) ==
    IF rows = <<>> THEN <<>>
    ELSE IF Head(rows).RequestId = id /\ Head(rows)[key] \in lookup
         THEN <<Head(rows)[key]>> \o JoinedIds(Tail(rows), key, lookup, id)
         ELSE JoinedIds(Tail(rows), key, lookup, id)

\* Query.all() of one mapped entity: each entity once, in first-seen order.
RECURSIVE unique_list(_)
unique_list(s) ==
    IF s = <<>> THEN <<>>
    ELSE LET init == unique_list(SubSeq(s, 1, Len(s) - 1))
         IN IF \E i \in 1..Len(init) : init[i] = s[Len(s)]
            THEN init ELSE Append(init, s[Len(s)])

RECURSIVE ActiveReplyIds(_, _)
ActiveReplyIds(rows, id) ==
    IF rows = <<>> THEN <<>>
    ELSE IF Head(rows).RequestId = id /\ Head(rows).IsDeleted = FALSE
         THEN <<Head(rows).Id>> \o ActiveReplyIds(Tail(rows), id)
         ELSE ActiveReplyIds(Tail(rows), id)

\* The orders in which a query without ORDER BY may return the rows s.
Orders(s) ==
    {t \in [1..Len(s) -> {s[i] : i \in 1..Len(s)}] :
        \A i \in 1..Len(s) : \E j \in 1..Len(s) : t[j] = s[i]}

\* The "request" object get_request_details returns for an existing request.
\* A lookup that does not resolve shows as None.
RequestDetails(id) ==
    LET req == requests[id]
        rd == SelectSeq(requestData, LAMBDA r : r.RequestId = id)
    IN [id |-> req.Id,
        number |-> req.RequestNumber,
        status |-> IF req.StatusId \in StatusLookup THEN req.StatusId ELSE None,
        type |-> IF req.CategoryId \in CategoryIds THEN req.CategoryId ELSE None,
        user_email |-> Email(req.UserId),
        assigned_role_id |-> req.AssignedRoleId,
        attach_path |-> req.AttachPath,
        updated_by |-> req.UpdatedByUserID,
        request_information |->
            unique_list(JoinedIds(reqInfo, "RequestInformationId",
                                  RequestInformationLookup, id)),
        formats |-> unique_list(JoinedIds(reqFormat, "FormatId", FormatLookup, id)),
        replies |-> ActiveReplyIds(replies, id),
        has_request_data |-> req.CategoryId = DataCategory /\ rd # <<>>,
        projection |-> IF req.CategoryId = DataCategory /\ rd # <<>>
                          /\ rd[1].ProjectionId \in ProjectionLookup
                       THEN rd[1].ProjectionId ELSE None]

get_request_details(p) ==
    /\ Free(p)
    /\ ncalls' = ncalls + 1
    /\ \E user \in UserIds, request_id \in RequestIdInputs :
         LET start == [IdleProc EXCEPT !.op = "get_request_details",
                           !.call = ncalls + 1, !.user = user,
                           !.request_id = request_id]
         IN IF ~require_admin(user)
            THEN Respond(p, start, http_error(403, "Admins only"))
            ELSE IF ~ExistingRequest(request_id)
            THEN Respond(p, start,
                         error_response("Request not found", "REQUEST_NOT_FOUND"))
            ELSE \E order \in Orders(RequestDetails(request_id).replies) :
                   Respond(p, [start EXCEPT !.details =
                                  [RequestDetails(request_id) EXCEPT !.replies = order]],
                           success_response("Request details fetched successfully"))
    /\ UNCHANGED <<requests, requestData, reqInfo, reqFormat, replies, files, now, form, votes, users, domains, roleApps, answers, overlap>>

(* --------------------------- assigned_requests -------------------------- *)
\* The ids of the requests whose AssignedRoleId equals role, by Id.
AssignedTo_or_unassigned(role) ==
    SelectSeq([i \in 1..Len(requests) |-> i],
              LAMBDA i : requests[i].AssignedRoleId \in {role, None})

AssignedTo(role) ==
    SelectSeq([i \in 1..Len(requests) |-> i],
              LAMBDA i : requests[i].AssignedRoleId = role)

\* The queue of the caller's role, for any authenticated caller.
assigned_requests(p) ==
    /\ Free(p)
    /\ ncalls' = ncalls + 1
    /\ \E user \in UserIds :
         \E results \in Orders(AssignedTo(RoleID(user))) :
            Respond(p, [IdleProc EXCEPT !.op = "assigned_requests",
                            !.call = ncalls + 1, !.user = user,
                            !.details = results],
                    success_response("Assigned requests fetched successfully"))
    /\ UNCHANGED <<requests, requestData, reqInfo, reqFormat, replies, files, now, form, votes, users, domains, roleApps, answers, overlap>>

(* ------------------------------ admin_reply ----------------------------- *)
\* The value a new Reply row gets in its IsDeleted column: a new reply is an
\* active one.
ReplyIsDeletedDefault == FALSE

admin_reply_save_attachment_before_lookup(p) ==
    /\ Free(p)
    /\ ncalls' = ncalls + 1
    /\ \E user \in UserIds, request_id \in RequestIdInputs,
          status_id \in StatusInputs :
         LET attachment == form.attach
             start == [IdleProc EXCEPT !.op = "admin_reply", !.call = ncalls + 1,
                           !.user = user, !.request_id = request_id,
                           !.status_id = status_id]
             loaded == [start EXCEPT !.req_StatusId = requests[request_id].StatusId,
                                     !.req = requests[request_id]]
             filename == <<utcnow, replace_blank(attachment)>>
         IN IF ~ExistingRequest(request_id)
            THEN /\ Respond(p, start,
                            error_response("Request not found", "REQUEST_NOT_FOUND"))
                 /\ files' = IF attachment = NoFile THEN files
                             ELSE WriteFile(<<"requests/reply">> \o filename, ncalls + 1)
            ELSE \/ /\ attachment = NoFile
                    /\ Goto(p, loaded, "reply")
                    /\ UNCHANGED files
                 \/ /\ attachment # NoFile
                    /\ Goto(p, [loaded EXCEPT
                                  !.attach_rel = <<"requests/reply">> \o filename],
                            "reply")
                    /\ files' = WriteFile(<<"requests/reply">> \o filename, ncalls + 1)
                 \/ /\ attachment # NoFile
                    /\ Respond(p, loaded, http_error(500, "Internal Server Error"))
                    /\ \/ UNCHANGED files
                       \/ files' = WriteFile(<<"requests/reply">> \o filename, Truncated)
    /\ UNCHANGED <<requests, requestData, reqInfo, reqFormat, replies, now, form, votes, users, domains, roleApps, answers, overlap>>

\* The call arrives from any authenticated user; the request is looked up and
\* the attachment, if any, is written under the reply directory.
admin_reply_save_attachment(p) ==
    /\ Free(p)
    /\ ncalls' = ncalls + 1
    /\ \E user \in UserIds, request_id \in RequestIdInputs,
          status_id \in StatusInputs :
         LET attachment == form.attach
             start == [IdleProc EXCEPT !.op = "admin_reply", !.call = ncalls + 1,
                           !.user = user, !.request_id = request_id,
                           !.status_id = status_id]
             loaded == [start EXCEPT !.req_StatusId = requests[request_id].StatusId,
                                     !.req = requests[request_id]]
             filename == <<utcnow, replace_blank(attachment)>>
         IN IF ~ExistingRequest(request_id)
            THEN /\ Respond(p, start,
                            error_response("Request not found", "REQUEST_NOT_FOUND"))
                 /\ UNCHANGED files
            ELSE \/ /\ attachment = NoFile
                    /\ Goto(p, loaded, "reply")
                    /\ UNCHANGED files
                 \/ /\ attachment # NoFile
                    /\ Goto(p, [loaded EXCEPT
                                  !.attach_rel = <<"requests/reply">> \o filename],
                            "reply")
                    /\ files' = WriteFile(<<"requests/reply">> \o filename, ncalls + 1)
                 \/ /\ attachment # NoFile
                    /\ Respond(p, loaded, http_error(500, "Internal Server Error"))
                    /\ \/ UNCHANGED files
                       \/ files' = WriteFile(<<"requests/reply">> \o filename, Truncated)
    /\ UNCHANGED <<requests, requestData, reqInfo, reqFormat, replies, now, form, votes, users, domains, roleApps, answers, overlap>>

\* What admin_reply writes to the request row: the new status, whatever the
\* old one was, and the update stamps.
reply_update_from_initial_only(req, status_id, user) ==
    [req EXCEPT !.StatusId = IF @ = InitialStatus THEN status_id ELSE @,
                !.UpdatedAt = utcnow,
                !.UpdatedByUserID = user]

reply_update(req, status_id, user) ==
    [req EXCEPT !.StatusId = status_id,
                !.UpdatedAt = utcnow,
                !.UpdatedByUserID = user]

\* The UPDATE a commit sends for a loaded object: the columns whose assigned
\* value differs from the loaded one are written to the row as it is now in
\* the table; the other columns of the row stay as they are.
flush(row, loaded, assigned) ==
    [k \in DOMAIN row |-> IF assigned[k] # loaded[k] THEN assigned[k] ELSE row[k]]

\* The Reply row and the request's new status and update stamps, in one commit.
admin_reply_commit(p) ==
    /\ proc[p].pc = "reply"
    /\ replies' = Append(replies,
          [Id |-> Len(replies) + 1,
           RequestId |-> proc[p].request_id,
           AttachmentPath |-> proc[p].attach_rel,
           ResponderUserId |-> proc[p].user,
           CreatedByUserID |-> proc[p].user,
           IsDeleted |-> ReplyIsDeletedDefault,
           call |-> proc[p].call,
           status |-> proc[p].status_id])
    /\ requests' = [requests EXCEPT ![proc[p].request_id] =
                        flush(@, proc[p].req,
                              reply_update(proc[p].req, proc[p].status_id,
                                           proc[p].user))]
    /\ Goto(p, [new_reply |-> Len(replies) + 1], "owner")
    /\ UNCHANGED <<requestData, reqInfo, reqFormat, files, now, ncalls, form, votes, users, domains, roleApps, answers, overlap>>

\* The notification of a reply, to the owner of the request.
admin_reply_tasks(p, req) ==
    << [fn |-> IF proc[p].attach_rel # NoPath
               THEN "send_email_with_attachment" ELSE "send_reply_email",
        to |-> Email(req.UserId),
        request_number |-> req.RequestNumber,
        attachment |-> proc[p].attach_rel] >>

admin_reply_respond_notifying_first(p) ==
    /\ proc[p].pc = "owner"
    /\ LET req == requests[proc[p].request_id]
       IN IF req.UserId \notin UserIds \/ Email(req.UserId) = NoEmail
          THEN Respond(p, [background_tasks |-> admin_reply_tasks(p, req)],
                       error_response("Request owner email not found",
                                      "USER_EMAIL_NOT_FOUND"))
          ELSE Respond(p, [background_tasks |-> admin_reply_tasks(p, req)],
                       success_response("Reply sent successfully"))
    /\ UNCHANGED <<requests, requestData, reqInfo, reqFormat, replies, files, now, ncalls, form, votes, users, domains, roleApps, answers, overlap>>

\* The owner's e-mail is looked up: without one the error envelope is
\* returned, otherwise one notification is added and the success envelope.
admin_reply_respond(p) ==
    /\ proc[p].pc = "owner"
    /\ LET req == requests[proc[p].request_id]
       IN IF req.UserId \notin UserIds \/ Email(req.UserId) = NoEmail
          THEN Respond(p, << >>,
                       error_response("Request owner email not found",
                                      "USER_EMAIL_NOT_FOUND"))
          ELSE Respond(p, [background_tasks |-> admin_reply_tasks(p, req)],
                       success_response("Reply sent successfully"))
    /\ UNCHANGED <<requests, requestData, reqInfo, reqFormat, replies, files, now, ncalls, form, votes, users, domains, roleApps, answers, overlap>>

(* ------------------------------- get_users ------------------------------ *)
\* The values a handler passes to the envelope functions: a message text, an
\* error code, a result payload, or nothing (the parameter's default, None).
Text(s) == [kind |-> "text", v |-> s]
ErrorCode(s) == [kind |-> "code", v |-> s]
Payload(v) == [kind |-> "payload", v |-> v]
Absent == [kind |-> "none"]

\* The "or" of the envelope functions: the first operand unless it is None.
Or(a, b) == IF a = Absent THEN b ELSE a

\* success_response and error_response with all three parameters, as the
\* handlers that pass their arguments by position call them.
success_response_args(message_en, message_ar, data) ==
    [http |-> 200, success |-> TRUE, message |-> message_en,
     message_ar |-> Or(message_ar, message_en), data |-> data]

error_response_args(message_en, message_ar, error_code) ==
    [http |-> 200, success |-> FALSE, message |-> message_en,
     message_ar |-> Or(message_ar, message_en), error_code |-> error_code]

\* The users that are not soft-deleted, as the page get_users returns.
UsersPayload == Payload(UserIds)

\* get_users: the list of users for an admin, the FORBIDDEN envelope for any
\* other caller.  Both envelopes get their second argument by position.
get_users(p) ==
    /\ Free(p)
    /\ ncalls' = ncalls + 1
    /\ \E user \in UserIds :
         LET start == [IdleProc EXCEPT !.op = "get_users", !.call = ncalls + 1,
                           !.user = user]
         IN IF RoleID(user) # AdminRole
            THEN Respond(p, start,
                         error_response_args(Text("Only admins can view all users"),
                                             ErrorCode("FORBIDDEN"), Absent))
            ELSE Respond(p, start,
                         success_response_args(Text("Users retrieved successfully"),
                                               UsersPayload, Absent))
    /\ UNCHANGED <<requests, requestData, reqInfo, reqFormat, replies, files, now, form, votes, users, domains, roleApps, answers, overlap>>

(* ------------------------------ submit_vote ----------------------------- *)
\* A visitor id or a SubAnswer that is not sent.
NoText == "None"

\* What a vote request can carry: the user id of a valid token or none, a
\* visitor id in the cookie or header or none, the Answer and the SubAnswer.
TokenUserIds == UserIds \cup {None}
VisitorIds == {"v", NoText}
Answers == {"Yes", "No", "Maybe"}
SubAnswers == {"why", NoText}

\* _resolve_identity: the user id of the token; the visitor id only when
\* there is no user id.
resolve_identity(token_user_id, cookie_visitor_id) ==
    [user_id |-> token_user_id,
     visitor_id |-> IF token_user_id = None THEN cookie_visitor_id ELSE NoText]

\* submit_vote: the Answer and the identity are validated, then a Vote row
\* is added and committed.  No earlier vote of the identity is looked up.
submit_vote(p) ==
    /\ Free(p)
    /\ ncalls' = ncalls + 1
    /\ \E token_user_id \in TokenUserIds, cookie_visitor_id \in VisitorIds,
          Answer \in Answers, SubAnswer \in SubAnswers :
         LET id == resolve_identity(token_user_id, cookie_visitor_id)
             start == [IdleProc EXCEPT !.op = "submit_vote", !.call = ncalls + 1,
                           !.user = id.user_id]
         IN IF Answer \notin {"Yes", "No"}
            THEN /\ Respond(p, start,
                            error_response("Answer must be 'Yes' or 'No'.",
                                           "INVALID_ANSWER"))
                 /\ UNCHANGED votes
            ELSE IF id.user_id = None /\ id.visitor_id = NoText
            THEN /\ Respond(p, start,
                            error_response("Either UserId or VisitorId is required.",
                                           "NO_IDENTITY"))
                 /\ UNCHANGED votes
            ELSE /\ votes' = Append(votes,
                        [Id |-> Len(votes) + 1,
                         UserId |-> id.user_id,
                         VisitorId |-> id.visitor_id,
                         Answer |-> Answer,
                         SubAnswer |-> IF Answer = "No" THEN SubAnswer ELSE NoText,
                         CreatedAt |-> utcnow])
                 /\ Respond(p, start, success_response("Vote submitted successfully."))
    /\ UNCHANGED <<requests, requestData, reqInfo, reqFormat, replies, files, now, form, users, domains, roleApps, answers, overlap>>

(* ------------------------------- accounts ------------------------------- *)
\* The addresses of the accounts and the domain of each.
AccountEmails == {"admin@ngd", "a@x", "b@x", "c@y"}

\* extract_email_domain: the lower-cased part after the "@", or nothing.
extract_email_domain(email) ==
    IF email \in {"a@x", "b@x"} THEN "x"
    ELSE IF email = "c@y" THEN "y"
    ELSE IF email = "admin@ngd" THEN "ngd"
    ELSE NoText

\* bcrypt: the hash of a password, and the check of a password against it.
bcrypt_hash(password) == <<"bcrypt", password>>

bcrypt_verify(password, hash) == hash = bcrypt_hash(password)

\* The accounts present at the start: the administrator and one member whose
\* e-mail is verified and who is approved and active.
SeedUser(id, email, role) ==
    [UserID |-> id, Email |-> email, PasswordHash |-> bcrypt_hash("pw"),
     RoleID |-> role, IsApproved |-> TRUE, EmailVerified |-> TRUE,
     IsActive |-> TRUE, IsDeleted |-> FALSE, CreatedByUserID |-> None,
     call |-> 0, op |-> "seed", verified |-> 0]

InitialUsers == <<SeedUser(1, "admin@ngd", AdminRole), SeedUser(2, "a@x", 2)>>

\* db.query(User).filter(User.Email == email): the ids of the matching rows.
\* first() returns any one of them, as the query has no ORDER BY.
UsersByEmail(email) == {i \in 1..Len(users) : users[i].Email = email}

\* db.query(Domain).filter(func.lower(Domain.Domain) == d): the matching rows.
DomainRecords(d) == {i \in 1..Len(domains) : domains[i].Domain = d}

\* get_current_user / get_optional_user: the account of the bearer token; an
\* anonymous call to register has none.
Callers == {1, 2}
OptionalCallers == Callers \cup {None}

\* What a registration form carries.
RegisterEmails == {"a@x", "b@x", "c@y"}
RegisterRoles == {None, AdminRole}

\* The access token login issues, and the local of a call that issued none.
NoToken == << >>

create_access_token(db_user) ==
    [sub |-> db_user.Email, user_id |-> db_user.UserID, role_id |-> db_user.RoleID]

\* A new call of a handler of the accounts or of the role links is taken
\* while fewer than MaxAccountCalls calls were made.
FreeAccount(p) == Free(p) /\ ncalls < MaxAccountCalls

\* The verification e-mail and the domain-refused e-mail, as background tasks.
account_task(fn, email) ==
    [fn |-> fn, to |-> email, request_number |-> <<>>, attachment |-> NoPath]

(* login *)
LoginPasswords == {"pw", "bad"}

login_response_approval_first(db_user, password) ==
    IF db_user = NoRow \/ ~bcrypt_verify(password, db_user.PasswordHash)
    THEN error_response("Invalid email or password", "INVALID_CREDENTIALS")
    ELSE IF ~db_user.IsApproved
    THEN error_response("Your account is pending approval by an administrator.",
                        "ACCOUNT_NOT_APPROVED")
    ELSE IF ~db_user.EmailVerified
    THEN error_response("Please verify your email address before logging in.",
                        "EMAIL_NOT_VERIFIED")
    ELSE IF ~db_user.IsActive
    THEN error_response("Your account has been deactivated.", "ACCOUNT_INACTIVE")
    ELSE success_response("Login successful")

\* The checks of login on the row db_user, in the order of the code; the
\* envelope of the first that fails, or the success envelope.
login_response(db_user, password) ==
    IF db_user = NoRow \/ ~bcrypt_verify(password, db_user.PasswordHash)
    THEN error_response("Invalid email or password", "INVALID_CREDENTIALS")
    ELSE IF ~db_user.EmailVerified
    THEN error_response("Please verify your email address before logging in.",
                        "EMAIL_NOT_VERIFIED")
    ELSE IF ~db_user.IsApproved
    THEN error_response("Your account is pending approval by an administrator.",
                        "ACCOUNT_NOT_APPROVED")
    ELSE IF ~db_user.IsActive
    THEN error_response("Your account has been deactivated.", "ACCOUNT_INACTIVE")
    ELSE success_response("Login successful")

\* login: the row of the e-mail is looked up and checked; a token is created
\* only after every check.
login(p) ==
    /\ FreeAccount(p)
    /\ ncalls' = ncalls + 1
    /\ \E email \in RegisterEmails, password \in LoginPasswords :
       \E db_user \in IF UsersByEmail(email) = {} THEN {NoRow}
                      ELSE {users[i] : i \in UsersByEmail(email)} :
         LET start == [IdleProc EXCEPT !.op = "login", !.call = ncalls + 1,
                           !.args = [Email |-> email, Password |-> password],
                           !.req = db_user]
             resp == login_response(db_user, password)
         IN Respond(p, [start EXCEPT !.access_token =
                           IF resp.success THEN create_access_token(db_user)
                           ELSE NoToken],
                    resp)
    /\ UNCHANGED <<requests, requestData, reqInfo, reqFormat, replies, files, now, form, votes, users, domains, roleApps, answers, overlap>>

(* register *)
NewUser_verified(args, approved, created_by, call, op) ==
    [UserID |-> Len(users) + 1, Email |-> args.Email,
     PasswordHash |-> bcrypt_hash(args.Password),
     RoleID |-> IF args.RoleID = None THEN 2 ELSE args.RoleID,
     IsApproved |-> approved, EmailVerified |-> approved,
     IsActive |-> approved, IsDeleted |-> FALSE,
     CreatedByUserID |-> created_by,
     call |-> call, op |-> op, verified |-> 0]

\* The User row register and admin_create_user add: the next UserID, the
\* e-mail not yet verified.
NewUser(args, approved, created_by, call, op) ==
    [UserID |-> Len(users) + 1, Email |-> args.Email,
     PasswordHash |-> bcrypt_hash(args.Password),
     RoleID |-> IF args.RoleID = None THEN 2 ELSE args.RoleID,
     IsApproved |-> approved, EmailVerified |-> FALSE,
     IsActive |-> approved, IsDeleted |-> FALSE,
     CreatedByUserID |-> created_by,
     call |-> call, op |-> op, verified |-> 0]

DomainTypes_unrecorded(d) == {NoText}

\* The Type of the record of domain d that first() returns, or nothing.
DomainTypes(d) ==
    IF d = NoText \/ DomainRecords(d) = {} THEN {NoText}
    ELSE {domains[i].Type : i \in DomainRecords(d)}

\* register, up to the construction of the row: the e-mail must be free and
\* its domain must not be refused; a domain of type "accept" approves the
\* account at once.
register(p) ==
    /\ FreeAccount(p)
    /\ ncalls' = ncalls + 1
    /\ \E email \in RegisterEmails, role \in RegisterRoles,
          current_user \in OptionalCallers :
       \E type \in DomainTypes(extract_email_domain(email)) :
         LET start == [IdleProc EXCEPT !.op = "register", !.call = ncalls + 1,
                           !.user = current_user,
                           !.args = [Email |-> email, Password |-> "pw",
                                     RoleID |-> role,
                                     auto_approve |-> type = "accept"]]
         IN IF UsersByEmail(email) # {}
            THEN Respond(p, start,
                         error_response("Email already registered", "EMAIL_EXISTS"))
            ELSE IF type = "refused"
            THEN Respond(p, [start EXCEPT !.background_tasks =
                                <<account_task("send_domain_refused_email", email)>>],
                         error_response("This email domain is not allowed. Please use your company email.",
                                        "DOMAIN_REFUSED"))
            ELSE Goto(p, start, "register_insert")
    /\ UNCHANGED <<requests, requestData, reqInfo, reqFormat, replies, files, now, form, votes, users, domains, roleApps, answers, overlap>>

\* register, from db.add(new_user): the row is committed, the verification
\* e-mail is queued and the call succeeds.
register_insert(p) ==
    /\ proc[p].pc = "register_insert"
    /\ users' = Append(users, NewUser(proc[p].args, proc[p].args.auto_approve,
                                      proc[p].user, proc[p].call, "register"))
    /\ Respond(p, [new_user |-> Len(users) + 1,
                   background_tasks |->
                       <<account_task("send_email", proc[p].args.Email)>>],
               success_response("Registration successful. Please verify your email."))
    /\ UNCHANGED <<requests, requestData, reqInfo, reqFormat, replies, files, now, ncalls, form, votes, domains, roleApps, answers, overlap>>

(* verify_email *)
\* The verification tokens a call can present: one made for an address, or
\* one that is forged or expired.
VerificationTokens == [email : RegisterEmails, valid : BOOLEAN]

verify_verification_token(token) == IF token.valid THEN token.email ELSE NoText

verify_email(p) ==
    /\ FreeAccount(p)
    /\ ncalls' = ncalls + 1
    /\ \E token \in VerificationTokens :
         LET email == verify_verification_token(token)
             start == [IdleProc EXCEPT !.op = "verify_email", !.call = ncalls + 1,
                           !.args = [token |-> token]]
         IN IF email = NoText
            THEN /\ Respond(p, start,
                            error_response("Invalid or expired token", "TOKEN_INVALID"))
                 /\ UNCHANGED users
            ELSE IF UsersByEmail(email) = {}
            THEN /\ Respond(p, start,
                            error_response("User not found", "USER_NOT_FOUND"))
                 /\ UNCHANGED users
            ELSE \E id \in UsersByEmail(email) :
                   IF users[id].EmailVerified
                   THEN /\ Respond(p, [start EXCEPT !.new_user = id],
                                   error_response("Email already verified",
                                                  "EMAIL_ALREADY_VERIFIED"))
                        /\ UNCHANGED users
                   ELSE /\ users' = [users EXCEPT ![id].EmailVerified = TRUE,
                                                  ![id].verified = ncalls + 1]
                        /\ Respond(p, [start EXCEPT !.new_user = id],
                                   success_response("Email verified successfully. Waiting for admin approval."))
    /\ UNCHANGED <<requests, requestData, reqInfo, reqFormat, replies, files, now, form, votes, domains, roleApps, answers, overlap>>

(* the administrator's operations on accounts *)
\* The user ids a path can name: every account and one id without a row.
PathUserIds == 1..(Len(users) + 1)

\* The envelope every operation below returns to a caller who is not the
\* administrator; the code is passed by position, as the Arabic message.
forbidden(message_en) ==
    error_response_args(Text(message_en), ErrorCode("FORBIDDEN"), Absent)

user_not_found ==
    error_response_args(Text("User not found"), ErrorCode("USER_NOT_FOUND"), Absent)

\* admin_create_user, up to the construction of the row.
admin_create_user(p) ==
    /\ FreeAccount(p)
    /\ ncalls' = ncalls + 1
    /\ \E email \in RegisterEmails, role \in RegisterRoles, current \in Callers :
         LET start == [IdleProc EXCEPT !.op = "admin_create_user",
                           !.call = ncalls + 1, !.user = current,
                           !.args = [Email |-> email, Password |-> "pw",
                                     RoleID |-> role, auto_approve |-> TRUE]]
         IN IF users[current].RoleID # AdminRole
            THEN Respond(p, start, forbidden("Only admins can create users"))
            ELSE IF UsersByEmail(email) # {}
            THEN Respond(p, start,
                         error_response_args(Text("Email already registered"),
                                             ErrorCode("EMAIL_EXISTS"), Absent))
            ELSE Goto(p, start, "admin_create_insert")
    /\ UNCHANGED <<requests, requestData, reqInfo, reqFormat, replies, files, now, form, votes, users, domains, roleApps, answers, overlap>>

\* admin_create_user, from db.add(new_user): the row is committed approved
\* and active, the invitation is queued and the call succeeds.
admin_create_insert(p) ==
    /\ proc[p].pc = "admin_create_insert"
    /\ users' = Append(users, NewUser(proc[p].args, TRUE, proc[p].user,
                                      proc[p].call, "admin_create_user"))
    /\ Respond(p, [new_user |-> Len(users) + 1,
                   background_tasks |->
                       <<account_task("send_email", proc[p].args.Email)>>],
               success_response_args(Text("User created and invitation sent."),
                                     Payload(Len(users) + 1), Absent))
    /\ UNCHANGED <<requests, requestData, reqInfo, reqFormat, replies, files, now, ncalls, form, votes, domains, roleApps, answers, overlap>>

\* update_user_status: the administrator sets IsActive of an account.
update_user_status(p) ==
    /\ FreeAccount(p)
    /\ ncalls' = ncalls + 1
    /\ \E user_id \in PathUserIds, is_active \in BOOLEAN, current \in Callers :
         LET start == [IdleProc EXCEPT !.op = "update_user_status",
                           !.call = ncalls + 1, !.user = current,
                           !.args = [user_id |-> user_id, is_active |-> is_active]]
         IN IF users[current].RoleID # AdminRole
            THEN /\ Respond(p, start, forbidden("Only admins can update status"))
                 /\ UNCHANGED users
            ELSE IF user_id \notin 1..Len(users)
            THEN /\ Respond(p, start, user_not_found)
                 /\ UNCHANGED users
            ELSE /\ users' = [users EXCEPT ![user_id].IsActive = is_active]
                 /\ Respond(p, [start EXCEPT !.new_user = user_id],
                            success_response_args(Text("User status updated successfully"),
                                                  Payload(user_id), Absent))
    /\ UNCHANGED <<requests, requestData, reqInfo, reqFormat, replies, files, now, form, votes, domains, roleApps, answers, overlap>>

\* delete_user: the administrator marks an account that is not yet deleted.
delete_user(p) ==
    /\ FreeAccount(p)
    /\ ncalls' = ncalls + 1
    /\ \E user_id \in PathUserIds, current \in Callers :
         LET start == [IdleProc EXCEPT !.op = "delete_user",
                           !.call = ncalls + 1, !.user = current,
                           !.args = [user_id |-> user_id]]
         IN IF users[current].RoleID # AdminRole
            THEN /\ Respond(p, start, forbidden("Only admins can delete users"))
                 /\ UNCHANGED users
            ELSE IF user_id \notin 1..Len(users) \/ users[user_id].IsDeleted
            THEN /\ Respond(p, start, user_not_found)
                 /\ UNCHANGED users
            ELSE /\ users' = [users EXCEPT ![user_id].IsDeleted = TRUE]
                 /\ Respond(p, [start EXCEPT !.new_user = user_id],
                            success_response("User marked as deleted successfully"))
    /\ UNCHANGED <<requests, requestData, reqInfo, reqFormat, replies, files, now, form, votes, domains, roleApps, answers, overlap>>

\* The Domain table after the record of domain d was set to type: the record
\* first() returns is updated, or a record is added when there is none.
SetDomainType(d, type) ==
    IF d = NoText THEN {domains}
    ELSE IF DomainRecords(d) = {}
    THEN {Append(domains, [Domain |-> d, Type |-> type, call |-> ncalls + 1])}
    ELSE {[domains EXCEPT ![i].Type = type, ![i].call = ncalls + 1] :
             i \in DomainRecords(d)}

\* approve_user: the account becomes approved and active and its domain is
\* accepted.  IsDeleted is left as it is.
approve_user(p) ==
    /\ FreeAccount(p)
    /\ ncalls' = ncalls + 1
    /\ \E user_id \in PathUserIds, current \in Callers :
         LET start == [IdleProc EXCEPT !.op = "approve_user",
                           !.call = ncalls + 1, !.user = current,
                           !.args = [user_id |-> user_id]]
         IN IF users[current].RoleID # AdminRole
            THEN /\ Respond(p, start, forbidden("Only admins can approve users"))
                 /\ UNCHANGED <<users, domains>>
            ELSE IF user_id \notin 1..Len(users)
            THEN /\ Respond(p, start, user_not_found)
                 /\ UNCHANGED <<users, domains>>
            ELSE /\ users' = [users EXCEPT ![user_id].IsApproved = TRUE,
                                           ![user_id].IsActive = TRUE]
                 /\ domains' \in SetDomainType(
                        extract_email_domain(users[user_id].Email), "accept")
                 /\ Respond(p, [start EXCEPT !.new_user = user_id],
                            success_response_args(Text("User approved and activated successfully."),
                                                  Payload(user_id), Absent))
    /\ UNCHANGED <<requests, requestData, reqInfo, reqFormat, replies, files, now, form, votes, roleApps, answers, overlap>>

\* refuse_user: the domain of the account is refused, the account is told so
\* by e-mail, and the account is disapproved, deactivated and marked deleted.
refuse_user(p) ==
    /\ FreeAccount(p)
    /\ ncalls' = ncalls + 1
    /\ \E user_id \in PathUserIds, current \in Callers :
         LET start == [IdleProc EXCEPT !.op = "refuse_user",
                           !.call = ncalls + 1, !.user = current,
                           !.args = [user_id |-> user_id]]
         IN IF users[current].RoleID # AdminRole
            THEN /\ Respond(p, start, forbidden("Only admins can refuse users"))
                 /\ UNCHANGED <<users, domains>>
            ELSE IF user_id \notin 1..Len(users)
            THEN /\ Respond(p, start, user_not_found)
                 /\ UNCHANGED <<users, domains>>
            ELSE LET domain_value == extract_email_domain(users[user_id].Email)
                 IN /\ domains' \in SetDomainType(domain_value, "refused")
                    /\ users' = [users EXCEPT ![user_id].IsApproved = FALSE,
                                              ![user_id].IsActive = FALSE,
                                              ![user_id].IsDeleted = TRUE]
                    /\ Respond(p, [start EXCEPT !.new_user = user_id,
                                      !.background_tasks =
                                          IF domain_value = NoText THEN <<>>
                                          ELSE <<account_task("send_domain_refused_email",
                                                              users[user_id].Email)>>],
                               success_response_args(Text("User refused and notified."),
                                                     Payload(user_id), Absent))
    /\ UNCHANGED <<requests, requestData, reqInfo, reqFormat, replies, files, now, form, votes, roleApps, answers, overlap>>

(* ------------------------ assign_feature_to_roles ----------------------- *)
\* The application features that exist, and the ids a path can name.
AppFeatureIds == {1, 2}
PathFeatureIds == AppFeatureIds \cup {3}

\* payload.role_ids: a list of integers.  The ids are not looked up in Role.
RoleIdLists == {<<>>, <<AdminRole>>, <<2>>, <<AdminRole, 2>>, <<2, 2>>, <<2, 3>>}

\* set(payload.role_ids)
set(list) == {list[i] : i \in 1..Len(list)}

\* list(s): the elements of the set s, each once, in some order.
list(s) ==
    {t \in [1..Cardinality(s) -> s] : \A x \in s : \E j \in 1..Cardinality(s) : t[j] = x}

\* The RoleID of the RoleApp rows of feature f, in table order.
LinkRoleIds(rows, f) ==
    LET links == SelectSeq(rows, LAMBDA r : r.AppFeatureID = f)
    IN [i \in 1..Len(links) |-> links[i].RoleID]

\* The rows the loop over to_add adds, in the order added of the iteration.
NewLinks(added, f, user) ==
    [i \in 1..Len(added) |->
        [RoleID |-> added[i], AppFeatureID |-> f, CreatedByUserID |-> user]]

\* The links of the feature that are to be removed, left out.
remove_links_keeping_all(rows, f, to_remove) == rows

remove_links(rows, f, to_remove) ==
    SelectSeq(rows, LAMBDA r : ~(r.AppFeatureID = f /\ r.RoleID \in to_remove))

\* assign_feature_to_roles: for an administrator and an existing feature, the
\* links of the feature are made to be those of the payload: the missing ones
\* are added, the others are deleted, and the call reports both and the
\* links the feature has after the commit.
assign_feature_to_roles(p) ==
    /\ FreeAccount(p)
    /\ ncalls' = ncalls + 1
    /\ \E app_feature_id \in PathFeatureIds, role_ids \in RoleIdLists,
          user \in UserIds :
         LET start == [IdleProc EXCEPT !.op = "assign_feature_to_roles",
                           !.call = ncalls + 1, !.user = user,
                           !.args = [app_feature_id |-> app_feature_id,
                                     role_ids |-> role_ids,
                                     existing |-> LinkRoleIds(roleApps, app_feature_id)]]
             existing_role_ids == set(LinkRoleIds(roleApps, app_feature_id))
             new_role_ids == set(role_ids)
             to_add == new_role_ids \ existing_role_ids
             to_remove == existing_role_ids \ new_role_ids
         IN IF RoleID(user) # AdminRole
            THEN /\ Respond(p, start, http_error(403, "Admins only"))
                 /\ UNCHANGED roleApps
            ELSE IF app_feature_id \notin AppFeatureIds
            THEN /\ Respond(p, start,
                            error_response_args(Text("App feature not found"),
                                                Text("feature not found (ar)"), Absent))
                 /\ UNCHANGED roleApps
            ELSE \E added \in list(to_add), removed \in list(to_remove) :
                   LET links == remove_links(roleApps \o NewLinks(added, app_feature_id, user),
                                             app_feature_id, to_remove)
                   IN /\ roleApps' = links
                      /\ \E current_roles \in Orders(LinkRoleIds(links, app_feature_id)) :
                           Respond(p, start,
                                   success_response_args(
                                       Text("Feature roles updated successfully"),
                                       Text("feature roles updated (ar)"),
                                       Payload([AppFeatureID |-> app_feature_id,
                                                AddedRoles |-> added,
                                                RemovedRoles |-> removed,
                                                CurrentRoles |-> current_roles])))
    /\ UNCHANGED <<requests, requestData, reqInfo, reqFormat, replies, files, now, form, votes, users, domains, answers, overlap>>

(* --------------------------- submit_bulk_answers ------------------------ *)
\* The survey: question 1 with the choices 1 and 2, and question 2, which is
\* soft-deleted, with the choice 3.  There is no question 3.
UsersFeedbackQuestion == {[Id |-> 1, IsDeleted |-> FALSE], [Id |-> 2, IsDeleted |-> TRUE]}
QuestionChoice == {[Id |-> 1, QuestionId |-> 1], [Id |-> 2, QuestionId |-> 1],
                   [Id |-> 3, QuestionId |-> 2]}

\* item.ChoiceId: one id, a list of ids, or nothing.  v holds the ids.
IntChoice(i) == [kind |-> "int", v |-> <<i>>]
ListChoice(l) == [kind |-> "list", v |-> l]
NoChoice == [kind |-> "none", v |-> <<>>]

\* The items a payload is made of.
AnswerItems ==
    { [QuestionId |-> 1, ChoiceId |-> IntChoice(1), TextAnswer |-> NoText],
      [QuestionId |-> 1, ChoiceId |-> ListChoice(<<1, 2>>), TextAnswer |-> "t"],
      [QuestionId |-> 1, ChoiceId |-> NoChoice, TextAnswer |-> "t"],
      [QuestionId |-> 1, ChoiceId |-> NoChoice, TextAnswer |-> NoText],
      [QuestionId |-> 1, ChoiceId |-> ListChoice(<<1, 3>>), TextAnswer |-> NoText],
      [QuestionId |-> 2, ChoiceId |-> IntChoice(3), TextAnswer |-> NoText],
      [QuestionId |-> 3, ChoiceId |-> NoChoice, TextAnswer |-> "t"] }

\* payload.answers: a list of at most MaxItems items.
AnswerPayloads == UNION {[1..n -> AnswerItems] : n \in 0..MaxItems}

\* The identities a call can carry: a token, a visitor id, or neither.
BulkIdentities ==
    {[token_user_id |-> 1, cookie_visitor_id |-> NoText],
     [token_user_id |-> None, cookie_visitor_id |-> "v"],
     [token_user_id |-> None, cookie_visitor_id |-> NoText]}

\* "not item.ChoiceId": nothing, the id 0 or the empty list.
no_choice(ChoiceId) ==
    \/ ChoiceId = NoChoice
    \/ ChoiceId.kind = "int" /\ ChoiceId.v = <<0>>
    \/ ChoiceId.kind = "list" /\ ChoiceId.v = <<>>

\* The question query of the loop: the question with the id that is not
\* soft-deleted.
question_exists_deleted_too(QuestionId) ==
    \E q \in UsersFeedbackQuestion : q.Id = QuestionId

question_exists(QuestionId) ==
    \E q \in UsersFeedbackQuestion : q.Id = QuestionId /\ ~q.IsDeleted

\* ChoiceId as a list.
choices_of(ChoiceId) ==
    IF ChoiceId.kind = "int" THEN <<ChoiceId.v[1]>>
    ELSE IF ChoiceId.kind = "list" THEN ChoiceId.v
    ELSE <<>>

\* The ids among choices that are choices of the question.
valid_choice_ids(QuestionId, choices) ==
    {c.Id : c \in {c \in QuestionChoice :
                      c.QuestionId = QuestionId /\ c.Id \in set(choices)}}

\* The UsersFeedbackAnswer objects made for one item: one per choice, or one
\* with the text only.
item_answers(item, id, call) ==
    LET choices == choices_of(item.ChoiceId)
    IN IF choices # <<>>
       THEN [i \in 1..Len(choices) |->
                [VisitorId |-> id.visitor_id, QuestionId |-> item.QuestionId,
                 ChoiceId |-> choices[i], please_specify |-> item.TextAnswer,
                 CreatedAt |-> utcnow, CreatedByUserID |-> id.user_id,
                 call |-> call]]
       ELSE IF item.TextAnswer # NoText
       THEN << [VisitorId |-> id.visitor_id, QuestionId |-> item.QuestionId,
                ChoiceId |-> None, please_specify |-> item.TextAnswer,
                CreatedAt |-> utcnow, CreatedByUserID |-> id.user_id,
                call |-> call] >>
       ELSE <<>>

\* The loop over payload.answers: the item is validated and its objects are
\* appended to db_answers; the first invalid item raises.
RECURSIVE collect_answers(_, _, _, _)
collect_answers(items, id, call, db_answers) ==
    IF items = <<>> THEN [raised |-> FALSE, db_answers |-> db_answers]
    ELSE LET item == Head(items)
             choices == choices_of(item.ChoiceId)
         IN IF no_choice(item.ChoiceId) /\ item.TextAnswer = NoText
            THEN [raised |-> TRUE,
                  detail |-> "Either ChoiceId or TextAnswer is required"]
            ELSE IF ~question_exists(item.QuestionId)
            THEN [raised |-> TRUE, detail |-> "Invalid QuestionId"]
            ELSE IF choices # <<>>
                    /\ set(choices) \ valid_choice_ids(item.QuestionId, choices) # {}
            THEN [raised |-> TRUE, detail |-> "Invalid ChoiceId(s)"]
            ELSE collect_answers(Tail(items), id, call,
                                 db_answers \o item_answers(item, id, call))

\* submit_bulk_answers: the identity and the items are validated; the
\* answers are added and committed only after the whole loop.
submit_bulk_answers(p) ==
    /\ Free(p)
    /\ ncalls < MaxBulkCalls
    /\ ncalls' = ncalls + 1
    /\ \E identity \in BulkIdentities, payload \in AnswerPayloads :
         LET id == resolve_identity(identity.token_user_id, identity.cookie_visitor_id)
             start == [IdleProc EXCEPT !.op = "submit_bulk_answers",
                           !.call = ncalls + 1, !.user = id.user_id,
                           !.args = [visitor_id |-> id.visitor_id,
                                     answers |-> payload]]
             result == collect_answers(payload, id, ncalls + 1, <<>>)
         IN IF id.user_id = None /\ id.visitor_id = NoText
            THEN /\ Respond(p, start,
                            http_error(400, "Either UserId or VisitorId is required."))
                 /\ UNCHANGED answers
            ELSE IF payload = <<>>
            THEN /\ Respond(p, start, http_error(400, "No answers provided."))
                 /\ UNCHANGED answers
            ELSE IF result.raised
            THEN /\ Respond(p, start, http_error(400, result.detail))
                 /\ UNCHANGED answers
            ELSE /\ answers' = answers \o result.db_answers
                 /\ Respond(p, start, success_response("Bulk answers submitted"))
    /\ UNCHANGED <<requests, requestData, reqInfo, reqFormat, replies, files, now, form, votes, users, domains, roleApps, overlap>>

(* --------------------------- background tasks --------------------------- *)
\* After the response the call's background tasks run in the order they were
\* added.  A task delivers its e-mail or fails; a failure is only logged.
NextTask(p) == proc[p].background_tasks[proc[p].ran + 1]

TaskPending(p) ==
    proc[p].pc = "background"

AfterTask(p) ==
    IF proc[p].ran + 1 = Len(proc[p].background_tasks)
    THEN IdleProc ELSE [proc[p] EXCEPT !.ran = @ + 1]

run_background_task(p) ==
    /\ TaskPending(p)
    /\ NextTask(p).to # NoEmail
    /\ proc' = [proc EXCEPT ![p] = AfterTask(p)]
    /\ UNCHANGED <<requests, requestData, reqInfo, reqFormat, replies, files, now, ncalls, form, votes, users, domains, roleApps, answers, last, overlap>>

fail_background_task(p) ==
    /\ TaskPending(p)
    /\ proc' = [proc EXCEPT ![p] = AfterTask(p)]
    /\ UNCHANGED <<requests, requestData, reqInfo, reqFormat, replies, files, now, ncalls, form, votes, users, domains, roleApps, answers, last, overlap>>

(* -------------------------------- clock --------------------------------- *)
Tick ==
    /\ now < MaxTime
    /\ now' = now + 1
    /\ UNCHANGED <<requests, requestData, reqInfo, reqFormat, replies, files, ncalls, proc, form, votes, users, domains, roleApps, answers, last, overlap>>

(* ----------------------------- specification ---------------------------- *)
Next ==
    \/ \E p \in Procs : create_request_save_attachment(p)
    \/ \E p \in Procs : create_request_generate_number(p)
    \/ \E p \in Procs : create_request_validate_projection(p)
    \/ \E p \in Procs : create_request_insert_request(p)
    \/ \E p \in Procs : create_request_insert_request_data(p)
    \/ \E p \in Procs : create_request_insert_tags(p)
    \/ \E p \in Procs : create_request_respond(p)
    \/ \E p \in Procs : assign_request(p)
    \/ \E p \in Procs : get_request_details(p)
    \/ \E p \in Procs : admin_reply_save_attachment(p)
    \/ \E p \in Procs : admin_reply_commit(p)
    \/ \E p \in Procs : admin_reply_respond(p)
    \/ \E p \in Procs : assigned_requests(p)
    \/ \E p \in Procs : get_users(p)
    \/ \E p \in Procs : run_background_task(p)
    \/ \E p \in Procs : fail_background_task(p)

\* The calls of a run arrive one after the other, within one tick of the
\* clock: a call is taken only when the call before it has been answered and
\* its background tasks have run.
Init == Empty /\ overlap = FALSE

Spec == Init /\ [][Next]_vars

\* The same, with the clock advancing between any two steps.
NextClock == Tick \/ Next

SpecClock == Init /\ [][NextClock]_vars

\* The calls of a run overlap freely, within one tick of the clock.
InitOverlap == Empty /\ overlap = TRUE

SpecOverlap == InitOverlap /\ [][Next]_vars

\* Calls one at a time on a database that already holds a request of user 1
\* with two replies of the admin.
Replied ==
    /\ form \in Forms
    /\ votes = <<>>
    /\ users = <<>>
    /\ domains = <<>>
    /\ roleApps = <<>>
    /\ answers = <<>>
    /\ files = {}
    /\ now = 0
    /\ ncalls = 0
    /\ proc = [p \in Procs |-> IdleProc]
    /\ last = IdleProc
    /\ requestData = <<>>
    /\ reqInfo = <<>>
    /\ reqFormat = <<>>
    /\ requests =
          << reply_update(
               [Id |-> 1, UserId |-> 1, CategoryId |-> 3, AssignedRoleId |-> None,
                RequestNumber |-> <<"RQ", Date(localnow), zfill(str(1), PadWidth)>>,
                StatusId |-> InitialStatus, CreatedAt |-> utcnow,
                AttachPath |-> NoPath, UpdatedAt |-> None,
                UpdatedByUserID |-> None, call |-> 0, assigned |-> None],
               2, 1) >>
    /\ replies =
          [k \in 1..2 |->
              [Id |-> k, RequestId |-> 1, AttachmentPath |-> NoPath,
               ResponderUserId |-> 1, CreatedByUserID |-> 1,
               IsDeleted |-> ReplyIsDeletedDefault, call |-> 0, status |-> 2]]

InitReplied == Replied /\ overlap = FALSE

SpecReplied == InitReplied /\ [][Next]_vars

\* The home-page vote on its own: calls of submit_vote, one at a time.
NextVote == \E p \in Procs : submit_vote(p)

InitVote == Init /\ form.CategoryId = 3 /\ form.ProjectionId = 1

SpecVote == InitVote /\ [][NextVote]_vars

(* ------------------------ the accounts on their own --------------------- *)
NextAccounts ==
    \/ \E p \in Procs : login(p)
    \/ \E p \in Procs : register(p)
    \/ \E p \in Procs : register_insert(p)
    \/ \E p \in Procs : verify_email(p)
    \/ \E p \in Procs : admin_create_user(p)
    \/ \E p \in Procs : admin_create_insert(p)
    \/ \E p \in Procs : update_user_status(p)
    \/ \E p \in Procs : delete_user(p)
    \/ \E p \in Procs : approve_user(p)
    \/ \E p \in Procs : refuse_user(p)
    \/ \E p \in Procs : run_background_task(p)
    \/ \E p \in Procs : fail_background_task(p)

\* The accounts at the start of a run: the two accounts as they were created,
\* or as refuse_user on the member left them, or as approve_user did.
RefusedUsers ==
    [InitialUsers EXCEPT ![2].IsApproved = FALSE, ![2].IsActive = FALSE,
                         ![2].IsDeleted = TRUE]

AccountStates ==
    { [users |-> InitialUsers, domains |-> <<>>],
      [users |-> RefusedUsers, domains |-> <<[Domain |-> "x", Type |-> "refused", call |-> 0]>>],
      [users |-> InitialUsers, domains |-> <<[Domain |-> "x", Type |-> "accept", call |-> 0]>>] }

InitAccounts ==
    /\ requests = <<>>
    /\ requestData = <<>>
    /\ reqInfo = <<>>
    /\ reqFormat = <<>>
    /\ replies = <<>>
    /\ votes = <<>>
    /\ roleApps = <<>>
    /\ answers = <<>>
    /\ \E s \in AccountStates : users = s.users /\ domains = s.domains
    /\ form \in Forms /\ form.CategoryId = 3 /\ form.ProjectionId = 1
    /\ files = {}
    /\ now = 0
    /\ ncalls = 0
    /\ proc = [p \in Procs |-> IdleProc]
    /\ last = IdleProc
    /\ overlap = FALSE

SpecAccounts == InitAccounts /\ [][NextAccounts]_vars

\* Executions of register and admin_create_user that overlap.
NextCreateUsers ==
    \/ \E p \in Procs : register(p)
    \/ \E p \in Procs : register_insert(p)
    \/ \E p \in Procs : admin_create_user(p)
    \/ \E p \in Procs : admin_create_insert(p)
    \/ \E p \in Procs : run_background_task(p)
    \/ \E p \in Procs : fail_background_task(p)

InitCreateUsers ==
    /\ requests = <<>>
    /\ requestData = <<>>
    /\ reqInfo = <<>>
    /\ reqFormat = <<>>
    /\ replies = <<>>
    /\ votes = <<>>
    /\ roleApps = <<>>
    /\ answers = <<>>
    /\ users = InitialUsers
    /\ domains = <<>>
    /\ form \in Forms /\ form.CategoryId = 3 /\ form.ProjectionId = 1
    /\ files = {}
    /\ now = 0
    /\ ncalls = 0
    /\ proc = [p \in Procs |-> IdleProc]
    /\ last = IdleProc
    /\ overlap = TRUE

SpecCreateUsers == InitCreateUsers /\ [][NextCreateUsers]_vars

(* ----------------------- the role links on their own -------------------- *)
NextFeatures == \E p \in Procs : assign_feature_to_roles(p)

InitFeatures == Init /\ form.CategoryId = 3 /\ form.ProjectionId = 1

SpecFeatures == InitFeatures /\ [][NextFeatures]_vars

(* ------------------------ the answers on their own ---------------------- *)
NextAnswers == \E p \in Procs : submit_bulk_answers(p)

InitAnswers == Init /\ form.CategoryId = 3 /\ form.ProjectionId = 1

SpecAnswers == InitAnswers /\ [][NextAnswers]_vars

(* ------------------------------ properties ------------------------------ *)
\* What a call left behind, by the call's number.
RequestsOf(c) == {i \in 1..Len(requests) : requests[i].call = c}
RequestDataOf(i) == {k \in 1..Len(requestData) : requestData[k].RequestId = i}
InfoRowsOf(i) == {k \in 1..Len(reqInfo) : reqInfo[k].RequestId = i}
FormatRowsOf(i) == {k \in 1..Len(reqFormat) : reqFormat[k].RequestId = i}
FilesOf(c) == {f \in files : f.content = c}
TasksOf(c) == IF last.call = c THEN last.background_tasks ELSE <<>>

\* No call is being handled.
Quiet == \A p \in Procs : proc[p].pc \in {"idle", "background"}

\* The call answered last is the latest one that arrived, and it has finished.
LastIsLatest == ncalls = last.call /\ Quiet

\* The call answered last is an admin_reply that found its request.
ReplyOnExisting == last.op = "admin_reply" /\ last.req_StatusId # None

Tables == <<requests, requestData, reqInfo, reqFormat, replies>>

\* C1: no two Request rows carry the same RequestNumber, however the
\* create_request executions interleave.
C1_UniqueRequestNumber ==
    \A i, j \in 1..Len(requests) :
        i # j => requests[i].RequestNumber # requests[j].RequestNumber

OwnerWithoutEmail(id) ==
    requests[id].UserId \notin UserIds \/ Email(requests[id].UserId) = NoEmail

C3_NoOwnerEmailKeepsReply ==
    (/\ ReplyOnExisting
     /\ last.response.http # 500
     /\ OwnerWithoutEmail(last.request_id))
    => /\ last.response = error_response("Request owner email not found",
                                         "USER_EMAIL_NOT_FOUND")
       /\ ~last.response.success
       /\ last.background_tasks = <<>>
       /\ last.new_reply \in 1..Len(replies)
       /\ replies[last.new_reply].call = last.call
       /\ replies[last.new_reply].RequestId = last.request_id
       /\ LastIsLatest =>
            /\ \A p \in Procs : proc[p].background_tasks = <<>>
            /\ requests[last.request_id].StatusId = last.status_id
            /\ RequestDetails(last.request_id).status = last.status_id
            /\ \E k \in 1..Len(RequestDetails(last.request_id).replies) :
                  RequestDetails(last.request_id).replies[k] = last.new_reply

C3_Witness ==
    /\ ReplyOnExisting /\ LastIsLatest
    /\ last.response.error_code = "USER_EMAIL_NOT_FOUND"
    /\ last.req_StatusId # last.status_id

\* C4: in every state another operation can observe, a Request has a
\* RequestData row exactly when its CategoryId is 8, and never more than one.
C4_RequestDataIffDataCategory ==
    \A i \in 1..Len(requests) :
        /\ Cardinality(RequestDataOf(i)) <= 1
        /\ RequestDataOf(i) # {} <=> requests[i].CategoryId = DataCategory

\* C5: a create_request that is answered with the invalid-projection error has
\* created nothing: no Request, RequestData or tag row, no stored file and no
\* scheduled notification.
InvalidProjectionAnswered ==
    /\ last.op = "create_request"
    /\ last.response = error_response("Invalid ProjectionId", "None")

C5_InvalidProjectionCreatesNothing ==
    InvalidProjectionAnswered =>
        /\ RequestsOf(last.call) = {}
        /\ FilesOf(last.call) = {}
        /\ TasksOf(last.call) = <<>>

\* C6: with a CategoryId other than 8 the ProjectionId is ignored: whatever
\* its value, the call that got past its attachment succeeds with one Request
\* row and no RequestData row.
C6_ProjectionIgnoredForOtherCategories ==
    (/\ last.op = "create_request"
     /\ last.response.http = 200
     /\ form.CategoryId # DataCategory)
    => /\ last.response.success
       /\ Cardinality(RequestsOf(last.call)) = 1
       /\ \A i \in RequestsOf(last.call) : RequestDataOf(i) = {}

\* C7: for the request a successful create_request made, get_request_details
\* returns as many request_information entries as RequestInformationIds has
\* all-digit tokens, and as many formats entries as FormatIds has.
C7_ReadBackCountsEqualDigitTokens ==
    (last.op = "create_request" /\ last.response.success) =>
        /\ Len(RequestDetails(last.new_request).request_information)
              = Len(DigitTokens(form.RequestInformationIds))
        /\ Len(RequestDetails(last.new_request).formats)
              = Len(DigitTokens(form.FormatIds))

\* C8: notifications are scheduled only when every row of the call is
\* committed, in a step that writes no row; a successful create_request
\* schedules exactly two, to the system address and to the submitter; and a
\* step of a scheduled notification, failing or not, changes no row.
CreateCommitted(r) ==
    /\ RequestsOf(r.call) = {r.new_request}
    /\ form.CategoryId = DataCategory => RequestDataOf(r.new_request) # {}
    /\ Cardinality(InfoRowsOf(r.new_request))
          = Len(DigitTokens(form.RequestInformationIds))
    /\ Cardinality(FormatRowsOf(r.new_request)) = Len(DigitTokens(form.FormatIds))

ReplyCommitted(r) ==
    /\ r.new_reply \in 1..Len(replies)
    /\ replies[r.new_reply].call = r.call
    /\ requests[r.request_id].StatusId = r.status_id

C8_Step ==
    /\ (last'.call # last.call /\ last'.background_tasks # <<>>) =>
          /\ UNCHANGED Tables
          /\ last'.op \in {"create_request", "admin_reply"}
          /\ last'.op = "create_request" => CreateCommitted(last')
          /\ last'.op = "admin_reply" => ReplyCommitted(last')
    /\ (/\ last'.call # last.call
        /\ last'.op = "create_request"
        /\ last'.response.success) =>
          /\ Len(last'.background_tasks) = 2
          /\ last'.background_tasks[1].to = SYSTEM_EMAIL
          /\ last'.background_tasks[2].to = Email(last'.user)
    /\ \A p \in Procs :
          (TaskPending(p) /\ proc'[p] # proc[p]) => UNCHANGED Tables

C8_NotificationsAfterCommits == [][C8_Step]_vars

C8_Witness ==
    /\ last.op = "create_request"
    /\ last.response.success
    /\ Len(last.background_tasks) = 2
    /\ form.CategoryId = DataCategory
    /\ \E p \in Procs : TaskPending(p) /\ proc[p].ran = 1

\* C9: when persisting the attachment fails, create_request fails as a whole
\* and leaves no partial Request: no Request, RequestData or tag row of the
\* call and no scheduled notification.
AttachmentFailed ==
    /\ last.op = "create_request"
    /\ last.response = http_error(500, "Internal Server Error")

C9_AttachmentFailureLeavesNoRequest ==
    AttachmentFailed =>
        /\ RequestsOf(last.call) = {}
        /\ \A k \in 1..Len(requestData) : requestData[k].RequestId <= Len(requests)
        /\ \A k \in 1..Len(reqInfo) : reqInfo[k].RequestId <= Len(requests)
        /\ \A k \in 1..Len(reqFormat) : reqFormat[k].RequestId <= Len(requests)
        /\ TasksOf(last.call) = <<>>
        /\ \A p \in Procs : proc[p].background_tasks = <<>>

C9_Witness == AttachmentFailed /\ form.attach # NoFile


\* C10: a Request row is created with StatusId 7 and no AssignedRoleId;
\* AssignedRoleId changes only in a successful assign_request on that request
\* and StatusId only in an admin_reply on it, so both keep their initial
\* values until then; assign_request never changes StatusId and admin_reply
\* never changes AssignedRoleId.
AssignStep(i) ==
    /\ last'.call # last.call
    /\ last'.op = "assign_request"
    /\ last'.request_id = i
    /\ last'.response.success

ReplyStep(i) ==
    \E p \in Procs : /\ proc[p].pc = "reply"
                      /\ proc'[p].pc = "owner"
                      /\ proc[p].request_id = i

C10_Step ==
    /\ Len(requests') >= Len(requests)
    /\ \A i \in 1..Len(requests') :
          IF i > Len(requests)
          THEN /\ requests'[i].StatusId = InitialStatus
               /\ requests'[i].AssignedRoleId = None
          ELSE /\ requests'[i].AssignedRoleId # requests[i].AssignedRoleId
                    => AssignStep(i)
               /\ requests'[i].StatusId # requests[i].StatusId => ReplyStep(i)
               /\ AssignStep(i) => requests'[i].StatusId = requests[i].StatusId
               /\ ReplyStep(i) =>
                    requests'[i].AssignedRoleId = requests[i].AssignedRoleId

C10_InitialStatusAndRole == [][C10_Step]_vars

C10_Witness ==
    \E i \in 1..Len(requests) :
        /\ requests[i].AssignedRoleId # None
        /\ requests[i].StatusId # InitialStatus
        /\ \E k \in 1..Len(replies) : replies[k].RequestId = i
\* C11: assign_request is idempotent: a successful assign_request(X, r) on a
\* request that already has role r, as it has right after a successful
\* assign_request(X, r), leaves every Request row, every Reply row and all
\* other persisted state as it was.
AssignRepeated(i) ==
    /\ AssignStep(i)
    /\ \/ last'.req.AssignedRoleId = last'.role_id
       \/ /\ last.op = "assign_request"
          /\ last.response.success
          /\ last.request_id = i
          /\ last.role_id = last'.role_id

C11_Step ==
    \A i \in 1..Len(requests) : AssignRepeated(i) => UNCHANGED <<Tables, files>>

C11_AssignIdempotent == [][C11_Step]_vars

C11_Witness ==
    /\ last.op = "assign_request"
    /\ last.response.success
    /\ last.req # NoRow
    /\ last.req.AssignedRoleId = last.role_id
    /\ requests[last.request_id] = last.req

\* C12: assign_request, get_request_details and admin_reply, called past
\* their access gate with a request id that resolves to no Request, answer
\* with the failure envelope REQUEST_NOT_FOUND and change nothing: no Request
\* field, no Reply row, no attachment file, no scheduled notification.
NotFoundCall ==
    /\ last'.call # last.call
    /\ last'.op \in {"assign_request", "get_request_details", "admin_reply"}
    /\ ~ExistingRequest(last'.request_id)
    /\ last'.op = "admin_reply" \/ require_admin(last'.user)

C12_Step ==
    NotFoundCall =>
        /\ last'.response = error_response("Request not found", "REQUEST_NOT_FOUND")
        /\ ~last'.response.success
        /\ UNCHANGED <<Tables, files>>
        /\ last'.background_tasks = <<>>
        /\ \A p \in Procs : proc'[p].background_tasks = <<>>
                             \/ proc'[p] = proc[p]

C12_NotFoundChangesNothing == [][C12_Step]_vars

C12_Witness ==
    /\ last.op = "admin_reply"
    /\ last.response.error_code = "REQUEST_NOT_FOUND"
    /\ form.attach # NoFile
    /\ requests # <<>>

\* C13: the admin operations are role-gated: every Reply row was created, and
\* every Request status was set, by a caller whose role is admin.
C13_OnlyAdminsReply ==
    /\ \A k \in 1..Len(replies) : RoleID(replies[k].ResponderUserId) = AdminRole
    /\ \A i \in 1..Len(requests) :
          requests[i].UpdatedByUserID # None
              => RoleID(requests[i].UpdatedByUserID) = AdminRole

\* C14: a call refused by the role gate of an admin-only operation is answered
\* with the failure envelope (success = false), not with an HTTP error status.
C14_RoleGateAnswersWithEnvelope ==
    (/\ last.op \in {"assign_request", "get_request_details"}
     /\ ~require_admin(last.user))
    => /\ last.response.http = 200
       /\ ~last.response.success

\* C15: a response is a success envelope whose message and message_ar are
\* message texts and whose payload is in data, or a failure envelope whose
\* error code is in error_code; neither a payload nor an error code is in
\* message_ar.
C15_EnvelopeFieldsInPlace ==
    last.op = "get_users" =>
        /\ last.response.message.kind = "text"
        /\ last.response.message_ar.kind = "text"
        /\ IF last.response.success
           THEN last.response.data = UsersPayload
           ELSE last.response.error_code = ErrorCode("FORBIDDEN")

\* C16: get_request_details(X) returns in replies exactly the Reply rows of X
\* that are not deleted, each once, in the order of their creation, and no
\* reply of another request.
C16_RepliesActiveOnceInOrder ==
    (/\ last.op = "get_request_details"
     /\ last.response.success
     /\ LastIsLatest)
    => LET r == last.details.replies
       IN /\ \A k \in 1..Len(replies) :
                (replies[k].RequestId = last.request_id /\ ~replies[k].IsDeleted)
                    <=> \E i \in 1..Len(r) : r[i] = k
          /\ \A i, j \in 1..Len(r) : i # j => r[i] # r[j]
          /\ \A i, j \in 1..Len(r) : i < j => r[i] < r[j]

\* C17: assigned_requests called by a user with role r returns exactly the
\* requests whose latest successful assign_request set role r, each once; a
\* request that was never assigned is in no caller's queue; and the call
\* changes no state.
C17_Step ==
    (last'.call # last.call /\ last'.op = "assigned_requests") =>
        LET results == last'.details
        IN /\ last'.response.success
           /\ {results[k] : k \in 1..Len(results)}
                 = {i \in 1..Len(requests) :
                       requests[i].assigned = RoleID(last'.user)}
           /\ \A j, k \in 1..Len(results) : j # k => results[j] # results[k]
           /\ \A k \in 1..Len(results) : requests[results[k]].assigned # None
           /\ UNCHANGED <<Tables, files>>

C18_OneVotePerIdentity ==
    /\ \A i, j \in 1..Len(votes) :
          (i # j /\ votes[i].UserId # None) => votes[i].UserId # votes[j].UserId
    /\ \A i, j \in 1..Len(votes) :
          (i # j /\ votes[i].VisitorId # NoText)
              => votes[i].VisitorId # votes[j].VisitorId
    /\ \A i \in 1..Len(votes) :
          votes[i].SubAnswer # NoText => votes[i].Answer = "No"

\* C19: when admin_reply executions on the same request overlap, every one of
\* them has its Reply row, and the request has the StatusId given to the
\* execution that committed last and that execution's caller as
\* UpdatedByUserID.
LastReplyOf(i) ==
    CHOOSE k \in 1..Len(replies) :
        /\ replies[k].RequestId = i
        /\ \A j \in 1..Len(replies) : replies[j].RequestId = i => j <= k

C19_LastCommittedReplyWins ==
    \A i \in 1..Len(requests) :
        (\E k \in 1..Len(replies) : replies[k].RequestId = i) =>
            /\ requests[i].StatusId = replies[LastReplyOf(i)].status
            /\ requests[i].UpdatedByUserID = replies[LastReplyOf(i)].ResponderUserId

\* C20: uploads cannot collide by name: the attachments written by distinct
\* create_request executions have different stored paths, and so have those
\* written by distinct admin_reply executions, so that no stored attachment
\* is overwritten by a later upload.
C20_StoredPathsDistinct ==
    /\ \A i, j \in 1..Len(requests) :
          (i # j /\ requests[i].AttachPath # NoPath)
              => requests[i].AttachPath # requests[j].AttachPath
    /\ \A k, l \in 1..Len(replies) :
          (k # l /\ replies[k].AttachmentPath # NoPath)
              => replies[k].AttachmentPath # replies[l].AttachmentPath
    /\ \A i \in 1..Len(requests) :
          requests[i].AttachPath # NoPath
              => \E f \in files : /\ f.path = requests[i].AttachPath
                                  /\ f.content = requests[i].call

\* C21: the sequence component of a request number is the highest Request id
\* at generation time plus one (1 on an empty table) as 4 zero-padded digits;
\* when create_request executions do not overlap, it is the row's own Id and so
\* strictly increases in creation order, and it is the number returned.
SequenceOf(number) == number[3]

C21_SequenceFollowsCreationOrder ==
    /\ \A i \in 1..Len(requests) :
          /\ Len(SequenceOf(requests[i].RequestNumber)) = PadWidth
          /\ isdigit(SequenceOf(requests[i].RequestNumber))
          /\ int(SequenceOf(requests[i].RequestNumber)) = i
    /\ \A i, j \in 1..Len(requests) :
          i < j => int(SequenceOf(requests[i].RequestNumber))
                     < int(SequenceOf(requests[j].RequestNumber))
    /\ \A p \in Procs :
          proc[p].pc \in {"projection", "request"} =>
              /\ proc[p].next_number = Len(requests) + 1
              /\ int(SequenceOf(proc[p].request_number)) = proc[p].next_number
    /\ (last.op = "create_request" /\ last.response.success) =>
          last.request_number = requests[last.new_request].RequestNumber

C21_Witness ==
    /\ Len(requests) = 2
    /\ last.op = "create_request"
    /\ last.response.success
    /\ last.new_request = 2
    /\ SequenceOf(last.request_number) = <<"0", "0", "0", "2">>

\* C22: on every Request row the date component of RequestNumber is the
\* calendar date of the row's CreatedAt.
C22_NumberDateIsCreationDate ==
    \A i \in 1..Len(requests) :
        requests[i].RequestNumber[2] = Date(requests[i].CreatedAt)

\* C23: login issues an access token only when the password matches the row
\* of the e-mail and the row is at that moment EmailVerified, IsApproved and
\* IsActive; every other login fails, issues no token and reports the first
\* check that fails, in the order credentials, EMAIL_NOT_VERIFIED,
\* ACCOUNT_NOT_APPROVED, ACCOUNT_INACTIVE.
LoginPasswordMatches(call) ==
    /\ call.req # NoRow
    /\ call.req.Email = call.args.Email
    /\ call.req.PasswordHash = bcrypt_hash(call.args.Password)

LoginExpectedCode(call) ==
    IF ~LoginPasswordMatches(call) THEN "INVALID_CREDENTIALS"
    ELSE IF ~call.req.EmailVerified THEN "EMAIL_NOT_VERIFIED"
    ELSE IF ~call.req.IsApproved THEN "ACCOUNT_NOT_APPROVED"
    ELSE IF ~call.req.IsActive THEN "ACCOUNT_INACTIVE"
    ELSE "None"

C23_LoginChecksInOrder ==
    last.op = "login" =>
        /\ (last.req # NoRow => last.req = users[last.req.UserID])
        /\ (last.req = NoRow => UsersByEmail(last.args.Email) = {})
        /\ last.response.success <=>
               /\ LoginPasswordMatches(last)
               /\ last.req.EmailVerified /\ last.req.IsApproved /\ last.req.IsActive
        /\ last.response.success <=> last.access_token # NoToken
        /\ last.response.success => last.access_token.user_id = last.req.UserID
        /\ last.response.error_code = LoginExpectedCode(last)
        /\ last.response.http = 200

C23_Witness ==
    /\ last.op = "login"
    /\ ~last.response.success
    /\ last.response.error_code = "EMAIL_NOT_VERIFIED"
    /\ last.req.op = "register"
    /\ ~last.req.IsApproved
    /\ ~last.req.IsActive
    /\ last.access_token = NoToken

\* C24: while the IsDeleted flag of an account is set, after delete_user or
\* refuse_user succeeded on it, no login for the account succeeds, whatever
\* approve_user, update_user_status or verify_email did afterwards.
C24_DeletedCannotLogin ==
    (last.op = "login" /\ last.response.success) =>
        ~users[last.req.UserID].IsDeleted

\* C25 (as stated): after refuse_user succeeded on an account of domain d,
\* every register with an e-mail of d fails with DOMAIN_REFUSED and creates no
\* User row, until approve_user on an account of d makes the record "accept";
\* there is at most one Domain row per domain.
RefusedDomain(d) ==
    \E i \in DomainRecords(d) : domains[i].Type = "refused"

OneRowPerDomain ==
    \A i, j \in 1..Len(domains) : domains[i].Domain = domains[j].Domain => i = j

RowsOfCall(call) == {i \in 1..Len(users) : users[i].call = call}

C25_Blocked ==
    /\ OneRowPerDomain
    /\ (last.op = "register" /\ RefusedDomain(extract_email_domain(last.args.Email)))
          => /\ ~last.response.success
             /\ last.response.error_code =
                    IF UsersByEmail(last.args.Email) # {} THEN "EMAIL_EXISTS"
                    ELSE "DOMAIN_REFUSED"
             /\ RowsOfCall(last.call) = {}
    /\ (last.op = "refuse_user" /\ last.response.success)
          => RefusedDomain(extract_email_domain(users[last.new_user].Email))

C25_Step ==
    /\ C25_Blocked'
    /\ \A i \in 1..Len(domains) :
          (domains[i].Type = "refused" /\ domains'[i].Type # "refused")
              => /\ last'.op = "approve_user"
                 /\ last'.response.success
                 /\ extract_email_domain(users[last'.new_user].Email) = domains[i].Domain
                 /\ domains'[i].Type = "accept"
    /\ Len(domains') >= Len(domains)

AcceptedDomain(d) ==
    \E i \in DomainRecords(d) : domains[i].Type = "accept"

C26_Step ==
    /\ (Len(users') > Len(users) /\ last'.op = "register") =>
          LET row == users'[Len(users')]
              accept == AcceptedDomain(extract_email_domain(row.Email))
          IN /\ row.op = "register"
             /\ row.IsApproved = accept
             /\ row.IsActive = accept
             /\ ~row.EmailVerified
    /\ \A i \in 1..Len(users) :
          (users[i].op = "register" /\ ~users[i].EmailVerified
              /\ users'[i].EmailVerified)
              => /\ last'.op = "verify_email"
                 /\ last'.response.success
                 /\ last'.new_user = i
    /\ (last'.op = "login" /\ last'.req # NoRow /\ last'.req.op = "register"
           /\ last'.req.verified = 0)
          => /\ ~last'.response.success
             /\ last'.access_token = NoToken

CreatedByAdmin(row) ==
    /\ row.CreatedByUserID # None
    /\ users[row.CreatedByUserID].RoleID = AdminRole
    /\ users[row.CreatedByUserID].call < row.call

C27_AdminRoleOnlyFromAdmin ==
    \A i \in 1..Len(users) :
        users[i].RoleID = AdminRole => (users[i].op = "seed" \/ CreatedByAdmin(users[i]))

\* C28: however executions of register and admin_create_user interleave, no
\* two User rows have the same Email: a call with an e-mail that an account
\* holds fails with EMAIL_EXISTS and creates no row.
C28_UniqueEmail ==
    \A i, j \in 1..Len(users) : users[i].Email = users[j].Email => i = j

\* C29: after assign_feature_to_roles(f, S) succeeded on an existing feature
\* f, the roles linked to f are exactly the ids in S, each linked once, the
\* links of the other features are as before, AddedRoles and RemovedRoles are
\* the two set differences between S and the roles linked before, and a call
\* that repeats the payload adds and removes nothing.  A call that fails
\* changes no link.
C29_Step ==
    last'.op = "assign_feature_to_roles" =>
        LET f == last'.args.app_feature_id
            S == set(last'.args.role_ids)
            before == set(LinkRoleIds(roleApps, f))
            after == LinkRoleIds(roleApps', f)
        IN IF last'.response.success
           THEN LET data == last'.response.data.v
                IN /\ f \in AppFeatureIds
                   /\ set(after) = S
                   /\ Len(after) = Cardinality(S)
                   /\ \A g \in AppFeatureIds \ {f} :
                         LinkRoleIds(roleApps', g) = LinkRoleIds(roleApps, g)
                   /\ set(data.AddedRoles) = S \ before
                   /\ Len(data.AddedRoles) = Cardinality(S \ before)
                   /\ set(data.RemovedRoles) = before \ S
                   /\ Len(data.RemovedRoles) = Cardinality(before \ S)
                   /\ set(data.CurrentRoles) = S
                   /\ S = before =>
                         /\ roleApps' = roleApps
                         /\ data.AddedRoles = <<>>
                         /\ data.RemovedRoles = <<>>
           ELSE roleApps' = roleApps

C29_LinksBecomePayload == [][C29_Step]_vars

C29_Witness ==
    /\ last.op = "assign_feature_to_roles"
    /\ last.response.success
    /\ last.call = 2
    /\ last.args.role_ids = <<2, 3>>
    /\ last.response.data.v.AddedRoles = <<3>>
    /\ last.response.data.v.RemovedRoles = <<AdminRole>>
    /\ set(LinkRoleIds(roleApps, last.args.app_feature_id)) = {2, 3}

\* C30: submit_bulk_answers is all-or-nothing: when no identity is resolved
\* or an item of the payload is invalid (neither ChoiceId nor TextAnswer, a
\* QuestionId that is unknown or deleted, a ChoiceId that is not a choice of
\* the question), the call fails and no UsersFeedbackAnswer row of the call
\* is persisted, not even for the valid items before the invalid one; a call
\* that succeeds persists the rows of all its items.
InvalidItem(item) ==
    \/ choices_of(item.ChoiceId) = <<>> /\ item.TextAnswer = NoText
    \/ \A q \in UsersFeedbackQuestion : q.Id = item.QuestionId => q.IsDeleted
    \/ \E i \in 1..Len(choices_of(item.ChoiceId)) :
          [Id |-> choices_of(item.ChoiceId)[i], QuestionId |-> item.QuestionId]
              \notin QuestionChoice

AnswerCount(item) ==
    IF choices_of(item.ChoiceId) = <<>> THEN 1 ELSE Len(choices_of(item.ChoiceId))

RECURSIVE SumAnswerCounts(_)
SumAnswerCounts(items) ==
    IF items = <<>> THEN 0 ELSE AnswerCount(Head(items)) + SumAnswerCounts(Tail(items))

C30_Step ==
    last'.op = "submit_bulk_answers" =>
        LET items == last'.args.answers
            rejected == \/ last'.user = None /\ last'.args.visitor_id = NoText
                        \/ items = <<>>
                        \/ \E i \in 1..Len(items) : InvalidItem(items[i])
            rows == {i \in 1..Len(answers') : answers'[i].call = last'.call}
        IN IF rejected
           THEN /\ ~last'.response.success
                /\ last'.response.http = 400
                /\ answers' = answers
                /\ rows = {}
           ELSE /\ last'.response.success
                /\ Len(answers') = Len(answers) + SumAnswerCounts(items)
                /\ Cardinality(rows) = SumAnswerCounts(items)
                /\ SubSeq(answers', 1, Len(answers)) = answers

C30_AllOrNothing == [][C30_Step]_vars

C30_Witness ==
    /\ last.op = "submit_bulk_answers"
    /\ last.response.http = 400
    /\ last.user = 1
    /\ Len(last.args.answers) = 2
    /\ ~InvalidItem(last.args.answers[1])
    /\ InvalidItem(last.args.answers[2])
    /\ answers = <<>>

====
